---- MODULE Spec2Model ----
(***************************************************************************)
(* Model of the crawl orchestration of vibe-crawler (src/crawler.py):      *)
(* VibeCrawler.run, VibeCrawler._crawl_page, VibeCrawler._discover_links   *)
(* and VibeCrawler._same_origin, with the detector protocol of src/base.py,*)
(* the detectors of src/console_errors.py and src/meta_seo.py and the JSON  *)
(* report of src/reporter.py.                                              *)
(*                                                                         *)
(* A Python str is a sequence of tokens; every token is a substring that   *)
(* contains neither "/" nor "#" unless it is exactly that character, so    *)
(* str.rstrip("/"), str.split("#") and urlparse act on token sequences     *)
(* exactly as they act on the characters.                                  *)
(***************************************************************************)
EXTENDS Integers, Sequences, FiniteSets, TLC

\* ------------------------------------------------------------------ bounds
MaxBudget == 2      \* max_pages ranges over 0..MaxBudget
MaxLinks == 2       \* number of distinct a[href] values one page may carry
MaxFaults == 2      \* number of exceptions the collaborators raise in a run
MaxBugs == 2        \* number of defects the site shows in a run
MaxReportBugs == 3  \* number of bugs of a result handed to the reporter
MaxH1 == 2          \* number of h1 elements a page may hold
MaxSeoCalls == 2    \* number of MetaAndSEODetector.detect calls on one page
MaxEvents == 2      \* number of console events the site emits in a run

\* err["text"][:500]
DescriptionLimit == 500

\* ------------------------------------------------------- the environment
\* seed URLs the command line may pass as start_url
SeedUrls ==
  { <<"http:", "/", "/", "a.com", "/">>,
    <<"http:", "/", "/", "a.com", "/", "#", "top">> }

\* absolute href values (e.href) a page may carry
HrefUniverse ==
  { <<"http:", "/", "/", "a.com", "/">>,
    <<"http:", "/", "/", "a.com", "/", "p">>,
    <<"http:", "/", "/", "a.com", "/", "p", "/", "#", "f">>,
    <<"https:", "/", "/", "a.com", "/", "p">>,
    <<"http:", "/", "/", "b.com", "/", "p">>,
    <<"http:", "/", "/", "sub.a.com", "/">>,
    <<"http:", "/", "/", "a.com", ":8080", "/", "p">>,
    <<"mailto:", "x">> }

SchemeTokens == {"http:", "https:", "mailto:"}
PortTokens == {":8080"}

\* exceptions the page automation engine and the detectors raise; both are
\* subclasses of Exception
ExceptionClass == {"TimeoutError", "Error"}
\* page.goto times out or fails in transport
GotoRaises == {"TimeoutError", "Error"}
\* wait_for_timeout, detect and eval_on_selector_all fail with an Error
CallRaises == {"Error"}

\* HTTP statuses of a navigation response
StatusCodes == {200, 400}
\* page.goto returns None (no response) or a Response with a status
NoResponse == [present |-> FALSE]
Response(s) == [present |-> TRUE, status |-> s]
Responses == {NoResponse} \cup { Response(s) : s \in StatusCodes }

\* ----------------------------------------------------------- str helpers
RECURSIVE rstrip(_)
\* str.rstrip("/")
rstrip(s) ==
  IF s = <<>> THEN s
  ELSE IF s[Len(s)] = "/" THEN rstrip(SubSeq(s, 1, Len(s) - 1))
  ELSE s

RECURSIVE split_first(_)
\* str.split("#")[0]
split_first(s) ==
  IF s = <<>> THEN s
  ELSE IF Head(s) = "#" THEN <<>>
  ELSE <<Head(s)>> \o split_first(Tail(s))

RECURSIVE upto_delim(_)
\* the prefix of s before the first of "/", "?", "#"
upto_delim(s) ==
  IF s = <<>> THEN s
  ELSE IF Head(s) \in {"/", "?", "#"} THEN <<>>
  ELSE <<Head(s)>> \o upto_delim(Tail(s))

\* urlparse(url).netloc
netloc(url) ==
  IF Len(url) >= 3 /\ url[1] \in SchemeTokens /\ url[2] = "/" /\ url[3] = "/"
  THEN upto_delim(SubSeq(url, 4, Len(url)))
  ELSE <<>>

\* urlparse(url).scheme
scheme(url) ==
  IF url # <<>> /\ url[1] \in SchemeTokens THEN url[1] ELSE ""

\* urlparse(url).hostname: the netloc without its port
hostname(url) == SelectSeq(netloc(url), LAMBDA t : t \notin PortTokens)

\* ------------------------------------------------------------ data model
\* DEFAULT_DETECTORS, by the name attribute of each class (the first two)
detector_classes == <<"console_errors", "meta_seo">>

DetCategory == [console_errors |-> "javascript", meta_seo |-> "seo"]

\* the synthetic Bug of _crawl_page for a response status >= 400
HttpBug(u, status) ==
  [url |-> u, category |-> "http", severity |-> "high",
   title |-> <<"HTTP ", status>>,
   description |-> <<"Page returned status ", status>>]

\* the k-th Bug a detector reports for a page
Finding(name, u, k) ==
  [url |-> u, category |-> DetCategory[name], severity |-> "medium",
   title |-> <<name, k>>, description |-> <<name, k>>]

\* the lists of Bug a detect call may return
DetectReturns(name, u) ==
  { [i \in 1..n |-> Finding(name, u, i)] : n \in 0..MaxBugs }

\* variant: the cause is left out of the message
LoadError_without_cause(u, e) == [msg |-> "Failed to load ", url |-> u, cause |-> ""]

\* f"Failed to load {url}: {e}"
LoadError(u, e) == [msg |-> "Failed to load ", url |-> u, cause |-> e]

\* f"Detector {det.name} failed on {url}: {e}"
DetectorError(name, u, e) ==
  [msg |-> "Detector ", det |-> name, on |-> " failed on ", url |-> u,
   cause |-> e]

\* --------------------------------------------------------------- state
VARIABLES
  start_url,      \* self.start_url
  max_pages,      \* self.max_pages
  visited,        \* self._visited
  queue,          \* self._queue
  bugs,           \* self.result.bugs
  errors,         \* self.result.errors
  pages_visited,  \* self.result.pages_visited
  finished_at,    \* self.result.finished_at has been set
  browser,        \* "none", "open" or "closed"
  pc,             \* position of run / _crawl_page
  url,            \* the url of the current page session
  resp,           \* the response of the last page.goto that returned
  di,             \* index of the next detector in the for loop
  trace,          \* history of the calls made on collaborators
  limits,         \* what the environment may do in this run
  buffered,       \* ConsoleErrorDetector._errors
  info,           \* the facts MetaAndSEODetector.detect reads from the page
  seo_out,        \* the lists MetaAndSEODetector.detect has returned
  report          \* the data generate_json_report has built

vars == <<start_url, max_pages, visited, queue, bugs, errors, pages_visited,
          finished_at, browser, pc, url, resp, di, trace, limits, buffered,
          info, seo_out, report>>

\* the state of the detectors and of the reporter
beside == <<limits, buffered, info, seo_out, report>>

NoUrl == <<>>
NoInfo == [loaded |-> FALSE]
NoReport == [built |-> FALSE]

\* the crawl before run is called, whatever the environment may do
Constructed ==
  /\ visited = {}
  /\ queue = <<>>
  /\ bugs = <<>>
  /\ errors = <<>>
  /\ pages_visited = 0
  /\ finished_at = FALSE
  /\ browser = "none"
  /\ pc = "start"
  /\ url = NoUrl
  /\ resp = NoResponse
  /\ di = 1
  /\ trace = <<>>
  /\ buffered = <<>>
  /\ info = NoInfo
  /\ seo_out = <<>>
  /\ report = NoReport

\* state after VibeCrawler.__init__
Init ==
  /\ start_url \in SeedUrls
  /\ max_pages \in 0..MaxBudget
  /\ limits = [faults |-> MaxFaults, bugs |-> MaxBugs, events |-> 0,
               links |-> MaxLinks]
  /\ Constructed

\* ------------------------------------------------------- code operators
\* variant: the origins are compared by scheme
same_origin_by_scheme(u, seed) == scheme(u) = scheme(seed)

\* VibeCrawler._same_origin
same_origin(u, seed) == netloc(u) = netloc(seed)

\* href.split("#")[0].rstrip("/")
clean(href) == rstrip(split_first(href))

\* VibeCrawler._discover_links: the set handed to list(set(links))
discover_links(hrefs, seen, seed) ==
  { clean(h) : h \in { g \in hrefs : /\ clean(g) # <<>>
                                     /\ same_origin(clean(g), seed)
                                     /\ clean(g) \notin seen } }

InQueue(u, q) == \E i \in 1..Len(q) : q[i] = u

\* variant: the queue is not looked at
fresh_unqueued_unchecked(link, seen, q) == link \notin seen

\* the guard of the enqueue in _crawl_page
fresh(link, seen, q) == link \notin seen /\ ~InQueue(link, q)

RECURSIVE offer_prepend(_, _, _)
\* variant: self._queue.insert(0, link)
offer_prepend(q, seen, new_links) ==
  IF new_links = <<>> THEN q
  ELSE offer_prepend(IF fresh(Head(new_links), seen, q)
                     THEN <<Head(new_links)>> \o q ELSE q,
                     seen, Tail(new_links))

RECURSIVE offer(_, _, _)
\* for link in new_links: if fresh: self._queue.append(link)
offer(q, seen, new_links) ==
  IF new_links = <<>> THEN q
  ELSE offer(IF fresh(Head(new_links), seen, q)
             THEN Append(q, Head(new_links)) ELSE q,
             seen, Tail(new_links))

\* the orders in which list(set(links)) may enumerate a set
Orders(S) ==
  { f \in [1..Cardinality(S) -> S] :
      \A i, j \in 1..Cardinality(S) : f[i] = f[j] => i = j }

\* variant: the budget test admits one page too many
loop_guard_le(q, seen, budget) == q # <<>> /\ Cardinality(seen) <= budget

\* variant: the loop runs until the queue is empty
loop_guard_queue_only(q, seen, budget) == q # <<>>

\* the while condition of run
loop_guard(q, seen, budget) == q # <<>> /\ Cardinality(seen) < budget

\* variant: the url is not recorded
mark_visited_forgotten(seen, u) == seen

\* self._visited.add(url)
mark_visited(seen, u) == seen \cup {u}

\* variant: the head is read but stays in the queue
pop_rest_peek(q) == q

\* self._queue.pop(0): the remaining queue
pop_rest(q) == Tail(q)

\* variant: only a timeout is caught
except_load_timeout_only(e) == e = "TimeoutError"

\* except Exception, around page.goto and page.wait_for_timeout
except_load(e) == e \in ExceptionClass

\* variant: only a timeout is caught
except_detect_timeout_only(e) == e = "TimeoutError"

\* except Exception, around det.detect
except_detect(e) == e \in ExceptionClass

\* variant: only a timeout is swallowed
except_discover_timeout_only(e) == e = "TimeoutError"

\* except Exception, around _discover_links
except_discover(e) == e \in ExceptionClass

\* variant: the failure is dropped
record_load_error_dropped(errs, u, e) == errs

\* self.result.errors.append(f"Failed to load {url}: {e}")
record_load_error(errs, u, e) == Append(errs, LoadError(u, e))

\* the cleaned hrefs of a page that are in scope, before deduplication
in_scope(hrefs, seed) ==
  { clean(h) : h \in { g \in hrefs : clean(g) # <<>>
                                     /\ same_origin(clean(g), seed) } }

\* variant: 400 itself is not reported
status_is_error_gt(r) == r.present /\ r.status > 400

\* if resp and resp.status >= 400
status_is_error(r) == r.present /\ r.status >= 400

\* -------------------------------------------------------------- actions
Log(ev) == Append(trace, ev)

\* the number of exceptions raised so far
Faults == Cardinality({ i \in 1..Len(trace) :
                          trace[i].op \in {"goto", "settle", "detect", "discover"}
                          /\ trace[i].raised # "" })
MayRaise == Faults < limits.faults

\* the site shows n more defects only while the run has seen fewer than
\* limits.bugs of them
MayShow(n) == Len(bugs) + n <= limits.bugs

\* variant: only the first detector is attached
attach_first_only(classes) ==
  <<[op |-> "attach", det |-> classes[1]]>>

\* run, lines 151-156: det = cls(); det.attach(page), for each class in turn
attach_each(classes) ==
  [i \in 1..Len(classes) |-> [op |-> "attach", det |-> classes[i]]]

\* run, lines 143-158: launch the browser, create and attach one instance
\* of each detector class, enqueue the seed
Launch ==
  /\ pc = "start"
  /\ browser' = "open"
  /\ trace' = trace \o attach_each(detector_classes)
  /\ queue' = Append(queue, rstrip(start_url))
  /\ pc' = "loop"
  /\ UNCHANGED beside
  /\ UNCHANGED <<start_url, max_pages, visited, bugs, errors, pages_visited,
                 finished_at, url, resp, di>>

\* run, lines 160-165: one iteration of the while loop up to the call of
\* _crawl_page
Pop ==
  /\ pc = "loop"
  /\ loop_guard(queue, visited, max_pages)
  /\ queue' = pop_rest(queue)
  /\ IF Head(queue) \in visited
     THEN \* continue
          UNCHANGED <<visited, pc, url, trace>>
     ELSE /\ visited' = mark_visited(visited, Head(queue))
          /\ url' = Head(queue)
          /\ pc' = "goto"
          /\ trace' = Log([op |-> "visit", url |-> Head(queue)])
  /\ UNCHANGED beside
  /\ UNCHANGED <<start_url, max_pages, bugs, errors, pages_visited,
                 finished_at, browser, resp, di>>

\* run, lines 167-172: the loop has ended; close the browser, finalize
Finish ==
  /\ pc = "loop"
  /\ ~loop_guard(queue, visited, max_pages)
  /\ browser' = "closed"
  /\ pages_visited' = Cardinality(visited)
  /\ finished_at' = TRUE
  /\ pc' = "done"
  /\ trace' = Log([op |-> "close"])
  /\ UNCHANGED beside
  /\ UNCHANGED <<start_url, max_pages, visited, queue, bugs, errors, url,
                 resp, di>>

\* the except clause of lines 114-116, or the exception leaving run
LoadFailed(e) ==
  /\ IF except_load(e)
     THEN /\ errors' = record_load_error(errors, url, e)
          /\ pc' = "loop"
     ELSE /\ pc' = "raised"
          /\ UNCHANGED errors
  /\ UNCHANGED resp

\* _crawl_page, line 112: page.goto returns a response or raises
Goto ==
  /\ pc = "goto"
  /\ \/ \E r \in Responses :
          /\ status_is_error(r) => MayShow(1)
          /\ resp' = r
          /\ pc' = "settle"
          /\ trace' = Log([op |-> "goto", url |-> url, raised |-> ""])
          /\ UNCHANGED errors
     \/ \E e \in GotoRaises :
          /\ MayRaise
          /\ LoadFailed(e)
          /\ trace' = Log([op |-> "goto", url |-> url, raised |-> e])
  /\ UNCHANGED beside
  /\ UNCHANGED <<start_url, max_pages, visited, queue, bugs, pages_visited,
                 finished_at, browser, url, di>>

\* _crawl_page, line 113: page.wait_for_timeout returns or raises (the page
\* or the browser went away during the wait)
Settle ==
  /\ pc = "settle"
  /\ \/ /\ pc' = "status"
        /\ trace' = Log([op |-> "settle", url |-> url, raised |-> ""])
        /\ UNCHANGED <<errors, resp>>
     \/ \E e \in CallRaises :
          /\ MayRaise
          /\ LoadFailed(e)
          /\ trace' = Log([op |-> "settle", url |-> url, raised |-> e])
  /\ UNCHANGED beside
  /\ UNCHANGED <<start_url, max_pages, visited, queue, bugs, pages_visited,
                 finished_at, browser, url, di>>

\* _crawl_page, lines 118-125
StatusCheck ==
  /\ pc = "status"
  /\ bugs' = IF status_is_error(resp)
             THEN Append(bugs, HttpBug(url, resp.status))
             ELSE bugs
  /\ di' = 1
  /\ pc' = "detect"
  /\ UNCHANGED beside
  /\ UNCHANGED <<start_url, max_pages, visited, queue, errors, pages_visited,
                 finished_at, browser, url, resp, trace>>

\* variant: the returned bugs are put in front
extend_front(bs, ret) == ret \o bs

RECURSIVE extend_merged(_, _)
\* variant: a Bug equal to one already in the result is not added
extend_merged(bs, ret) ==
  IF ret = <<>> THEN bs
  ELSE extend_merged(IF \E k \in 1..Len(bs) : bs[k] = Head(ret) THEN bs
                     ELSE Append(bs, Head(ret)),
                     Tail(ret))

\* self.result.bugs.extend(bugs)
extend(bs, ret) == bs \o ret

\* variant: break after the first detector
after_detect_break(i, classes) == "discover"

\* for det in detectors: the loop goes on to the next detector, or ends
after_detect(i, classes) == IF i = Len(classes) THEN "discover" ELSE "detect"

\* _crawl_page, lines 127-132: one iteration of the for loop
Detect ==
  /\ pc = "detect"
  /\ LET name == detector_classes[di]
         next == after_detect(di, detector_classes)
     IN \/ \E ret \in DetectReturns(name, url) :
             /\ MayShow(Len(ret))
             /\ bugs' = extend(bugs, ret)
             /\ pc' = next
             /\ trace' = Log([op |-> "detect", url |-> url, det |-> name,
                              raised |-> "", ret |-> ret])
             /\ UNCHANGED errors
        \/ \E e \in CallRaises :
             /\ MayRaise
             /\ IF except_detect(e)
                THEN /\ errors' = Append(errors, DetectorError(name, url, e))
                     /\ pc' = next
                ELSE /\ pc' = "raised"
                     /\ UNCHANGED errors
             /\ trace' = Log([op |-> "detect", url |-> url, det |-> name,
                              raised |-> e, ret |-> <<>>])
             /\ UNCHANGED bugs
  /\ di' = di + 1
  /\ UNCHANGED beside
  /\ UNCHANGED <<start_url, max_pages, visited, queue, pages_visited,
                 finished_at, browser, url, resp>>

\* _crawl_page, lines 134-140: link discovery and the offer to the queue
Discover ==
  /\ pc = "discover"
  /\ \/ \E hrefs \in { H \in SUBSET HrefUniverse : Cardinality(H) <= limits.links } :
          LET links == discover_links(hrefs, visited, start_url)
          IN \E new_links \in Orders(links) :
               /\ queue' = offer(queue, visited, new_links)
               /\ pc' = "loop"
               /\ trace' = Log([op |-> "discover", url |-> url,
                                raised |-> "",
                                found |-> in_scope(hrefs, start_url),
                                offsite |-> \E h \in hrefs :
                                  hostname(h) # hostname(start_url),
                                added |-> SelectSeq(new_links,
                                  LAMBDA l : fresh(l, visited, queue)),
                                forced |-> \A o \in Orders(links) :
                                  offer(queue, visited, o)
                                    = offer(queue, visited, new_links)])
     \/ \E e \in CallRaises :
          /\ MayRaise
          /\ pc' = IF except_discover(e) THEN "loop" ELSE "raised"
          /\ trace' = Log([op |-> "discover", url |-> url, raised |-> e,
                           found |-> {}, offsite |-> FALSE,
                           added |-> <<>>, forced |-> TRUE])
          /\ UNCHANGED queue
  /\ UNCHANGED beside
  /\ UNCHANGED <<start_url, max_pages, visited, bugs, errors, pages_visited,
                 finished_at, browser, url, resp, di>>

Next ==
  \/ Launch
  \/ Pop
  \/ Finish
  \/ Goto
  \/ Settle
  \/ StatusCheck
  \/ Detect
  \/ Discover

Spec == Init /\ [][Next]_vars

\* a site on which no call fails and no defect shows, crawled with a larger
\* page budget
InitQuiet ==
  /\ start_url \in SeedUrls
  /\ max_pages \in (MaxBudget + 1)..(MaxBudget + 2)
  /\ limits = [faults |-> 0, bugs |-> 0, events |-> 0, links |-> MaxLinks]
  /\ Constructed

SpecQuiet == InitQuiet /\ [][Next]_vars

\* the event loop keeps running the coroutine: no step of run waits forever
FairSpec == Spec /\ WF_vars(Next)

\* ---------------------------------------------------- reading the trace
Idx == 1..Len(trace)
Ops(o) == { i \in Idx : trace[i].op = o }
Raised(o) == { i \in Ops(o) : trace[i].raised # "" }
Returned(o) == { i \in Ops(o) : trace[i].raised = "" }
QueueSet == { queue[i] : i \in 1..Len(queue) }
\* the seed as run enqueues it
Seed == rstrip(start_url)
HttpBugs == SelectSeq(bugs, LAMBDA b : b.category = "http")
BugsFrom(name, u) ==
  SelectSeq(bugs, LAMBDA b : b.url = u /\ b.category = DetCategory[name])
LoadErrorsOf(u) ==
  { k \in 1..Len(errors) : errors[k].msg = "Failed to load " /\ errors[k].url = u }
DetectorErrorsOf(name, u) ==
  { k \in 1..Len(errors) : /\ errors[k].msg = "Detector "
                           /\ errors[k].det = name
                           /\ errors[k].url = u }
DetectorNames == { detector_classes[i] : i \in 1..Len(detector_classes) }

\* ----------------------------------------------------------------- C1
\* C1: in every state of a run no URL is both in the visited set and in the
\* pending queue.
C1_VisitedQueueDisjoint == visited \cap QueueSet = {}

\* a page that links to an already visited URL has made its offer, and both
\* the visited set and the queue are non-empty
C1_Witness ==
  /\ queue # <<>>
  /\ \E j \in Returned("discover") : trace[j].found \cap visited # {}

\* ----------------------------------------------------------------- C2
\* C2: each URL is marked visited, and has a page session started for it, at
\* most once in a run.
C2_VisitedOnce ==
  /\ \A i, j \in Ops("visit") : trace[i].url = trace[j].url => i = j
  /\ \A i, j \in Ops("goto") : trace[i].url = trace[j].url => i = j

\* a URL was discovered again on a page visited after it, and the run ended
C2_Witness ==
  /\ pc = "done"
  /\ \E i \in Ops("visit") : \E j \in Returned("discover") :
       i < j /\ trace[i].url # trace[j].url /\ trace[i].url \in trace[j].found

\* ----------------------------------------------------------------- C3
\* C3: the size of the visited set never exceeds max_pages, and neither does
\* the final pages_visited.
C3_BudgetRespected ==
  /\ Cardinality(visited) <= max_pages
  /\ pages_visited <= max_pages
  /\ pc = "done" => pages_visited = Cardinality(visited)

\* the budget cut the crawl short: the run is over with URLs still queued
C3_Witness ==
  /\ pc = "done"
  /\ max_pages >= 2
  /\ pages_visited = max_pages
  /\ queue # <<>>

\* ----------------------------------------------------------------- C4
\* C4: with max_pages = 1 exactly one page session is run, for the seed (as
\* enqueued), and no discovered URL is dequeued or navigated to.
C4_SeedOnly ==
  max_pages = 1 =>
    /\ \A i \in Ops("visit") \cup Ops("goto") : trace[i].url = Seed
    /\ Cardinality(Ops("visit")) <= 1
    /\ visited \subseteq {Seed}
    /\ pc = "done" => Cardinality(Ops("visit")) = 1 /\ visited = {Seed}

\* the seed page carried links in scope, and the run ended without them
C4_Witness ==
  /\ max_pages = 1
  /\ pc = "done"
  /\ queue # <<>>

\* ----------------------------------------------------------------- C5
\* a detector that was invoked and raised on every one of its detect calls
AlwaysRaises(name) ==
  /\ \E i \in Ops("detect") : trace[i].det = name
  /\ \A i \in Ops("detect") : trace[i].det = name => trace[i].raised # ""

\* the page session of u has left the for loop over the detectors
Inspected(u) == \E j \in Ops("discover") : trace[j].url = u

\* C5: if a detector raises on every detect call, the bugs the other
\* detectors return are all appended to the result, every detector is still
\* invoked on every loaded page, and errors holds exactly one entry naming
\* that detector and the page for each page it was invoked on.
C5_FailingDetectorIsolated ==
  \A name \in DetectorNames :
    AlwaysRaises(name) =>
      /\ \A i \in Returned("detect") :
           BugsFrom(trace[i].det, trace[i].url) = trace[i].ret
      /\ \A i \in Ops("detect") :
           trace[i].det = name =>
             /\ Cardinality(DetectorErrorsOf(name, trace[i].url)) = 1
             /\ \E k \in 1..Len(errors) :
                  errors[k] = [msg |-> "Detector ", det |-> name,
                               on |-> " failed on ", url |-> trace[i].url,
                               cause |-> trace[i].raised]
      /\ \A u \in visited :
           /\ Cardinality(DetectorErrorsOf(name, u))
                = Cardinality({ i \in Ops("detect") :
                                  trace[i].det = name /\ trace[i].url = u })
           /\ Inspected(u) =>
                \A other \in DetectorNames :
                  Cardinality({ i \in Ops("detect") :
                                  trace[i].det = other /\ trace[i].url = u }) = 1

\* two pages were inspected, one detector raised on both and the other
\* returned a bug
C5_Witness ==
  /\ pc = "done"
  /\ Cardinality({ u \in visited : Inspected(u) }) = 2
  /\ \E name \in DetectorNames :
       /\ AlwaysRaises(name)
       /\ Cardinality({ i \in Ops("detect") : trace[i].det = name }) = 2
       /\ \E i \in Returned("detect") : trace[i].ret # <<>>

\* ----------------------------------------------------------------- C6
\* C6: whatever navigations, detectors and link discoveries fail, the run
\* ends: it has started at most max_pages page sessions, closed the browser,
\* set finished_at and returned the result.
C6_RunCompletes ==
  <>(/\ pc = "done"
     /\ browser = "closed"
     /\ finished_at
     /\ Cardinality(Ops("visit")) <= max_pages)

\* the run ended after a detector and a link discovery had failed
C6_Witness ==
  /\ pc = "done"
  /\ finished_at
  /\ Raised("detect") # {}
  /\ Raised("discover") # {}

\* ----------------------------------------------------------------- C7
\* the step in which page.goto raises
GotoFails == pc = "goto" /\ trace' # trace /\ trace'[Len(trace')].raised # ""

\* C7: when page.goto fails for a URL, exactly one "Failed to load <url>:
\* <cause>" entry is appended, no detector is invoked for it, it contributes
\* no bug and no link, and control returns to the run loop.
C7_FailedNavigation ==
  /\ [](\A i \in Raised("goto") :
          LET u == trace[i].url
          IN /\ Cardinality(LoadErrorsOf(u)) = 1
             /\ \E k \in 1..Len(errors) :
                  errors[k] = [msg |-> "Failed to load ", url |-> u,
                               cause |-> trace[i].raised]
             /\ \A j \in Ops("settle") \cup Ops("detect") \cup Ops("discover") :
                  trace[j].url # u
             /\ \A k \in 1..Len(bugs) : bugs[k].url # u
             /\ i = Len(trace) => pc = "loop"
             /\ i < Len(trace) => trace[i + 1].op \in {"visit", "close"})
  /\ [][GotoFails =>
          /\ Len(errors') = Len(errors) + 1
          /\ bugs' = bugs
          /\ queue' = queue
          /\ visited' = visited
          /\ pc' = "loop"]_vars

\* the second page of a run failed to load after the first had contributed
\* a bug, and the run went on to its end
C7_Witness ==
  /\ pc = "done"
  /\ bugs # <<>>
  /\ \E i \in Raised("goto") : trace[i].url # Seed

\* ----------------------------------------------------------------- C8
\* C8: if every navigation attempted in a run fails, the result has no bugs
\* and errors holds exactly one load failure for each visited URL.
C8_AllNavigationsFail ==
  (pc = "done" /\ Returned("goto") = {}) =>
    /\ bugs = <<>>
    /\ Len(errors) = Cardinality(visited)
    /\ \A u \in visited : Cardinality(LoadErrorsOf(u)) = 1

\* a run whose only navigation failed has ended
C8_Witness ==
  /\ pc = "done"
  /\ Raised("goto") # {}
  /\ Returned("goto") = {}

\* ----------------------------------------------------------------- C9
\* the run is over and its only page session was the seed's
SeedOnlyRun ==
  /\ pc = "done"
  /\ \A i \in Ops("visit") : trace[i].url = Seed
  /\ Ops("visit") # {}

\* what the result holds of category http when resp is the seed's response
HttpBugAsStated ==
  IF resp.present /\ resp.status >= 400
  THEN /\ Len(HttpBugs) = 1
       /\ HttpBugs[1].url = Seed
       /\ HttpBugs[1].category = "http"
       /\ HttpBugs[1].severity = "high"
       /\ HttpBugs[1].title = <<"HTTP ", resp.status>>
  ELSE HttpBugs = <<>>

C10_OffOriginNeverQueued ==
  /\ \A u \in visited \cup QueueSet : hostname(u) = hostname(start_url)
  /\ \A i \in Ops("visit") \cup Ops("goto") :
       hostname(trace[i].url) = hostname(start_url)

\* a page carried a link to another host next to a link in scope, which was
\* queued
C10_Witness ==
  /\ queue # <<>>
  /\ \E j \in Returned("discover") : trace[j].offsite /\ trace[j].found # {}

\* ---------------------------------------------------------------- C11
\* two URLs that differ only by a fragment or a trailing slash
same_page(u, v) == clean(u) = clean(v)

\* C11: URLs that differ only by a fragment or a trailing slash are one
\* frontier entry: over the whole run, the seed included, at most one of them
\* is ever queued and at most one page session is run for them.
C11_OneFrontierEntry ==
  /\ \A u, v \in visited \cup QueueSet : same_page(u, v) => u = v
  /\ \A i, j \in Ops("visit") : same_page(trace[i].url, trace[j].url) => i = j

\* ---------------------------------------------------------------- C12
\* C12: a link is accepted only if it has the seed's scheme and the seed's
\* host: neither a link with the seed's host and another scheme nor a link to
\* a subdomain of the seed's host is ever enqueued.
C12_SchemeAndHostOfSeed ==
  \A u \in visited \cup QueueSet :
    scheme(u) = scheme(start_url) /\ hostname(u) = hostname(start_url)

\* ---------------------------------------------------------------- C13
\* the URLs of the page sessions, in the order they were started
VisitSeq ==
  LET v == SelectSeq(trace, LAMBDA ev : ev.op = "visit")
  IN [k \in 1..Len(v) |-> v[k].url]

RECURSIVE AddedUpTo(_)
\* the links appended to the queue by the first n calls of the trace, in
\* the order of their append
AddedUpTo(n) ==
  IF n = 0 THEN <<>>
  ELSE AddedUpTo(n - 1) \o (IF trace[n].op = "discover" THEN trace[n].added
                            ELSE <<>>)

\* every URL that entered the queue, in the order of entry
Entered == <<Seed>> \o AddedUpTo(Len(trace))

RECURSIVE Reach(_)
\* the URLs at most k link hops from the seed, over the links discovered
Reach(k) ==
  IF k = 0 THEN {Seed}
  ELSE Reach(k - 1) \cup
       UNION { trace[j].found : j \in { i \in Returned("discover") :
                                          trace[i].url \in Reach(k - 1) } }

\* the link-hop distance of a visited URL from the seed
Dist(u) == CHOOSE k \in 0..Len(trace) :
             u \in Reach(k) /\ \A m \in 0..(k - 1) : u \notin Reach(m)

\* C13: pages are visited breadth-first: of two visited URLs the one nearer
\* to the seed, in link hops over the links discovered, is visited first, and
\* URLs leave the queue in the order they entered it.
C13_BreadthFirst ==
  pc # "start" =>
    /\ Len(VisitSeq) <= Len(Entered)
    /\ VisitSeq = SubSeq(Entered, 1, Len(VisitSeq))
    /\ queue = SubSeq(Entered, Len(VisitSeq) + 1, Len(Entered))
    /\ \A i, j \in 1..Len(VisitSeq) :
         i < j => Dist(VisitSeq[i]) <= Dist(VisitSeq[j])

\* four pages were visited, two of them one hop and the last one two hops
\* from the seed
C13_Witness ==
  /\ pc = "done"
  /\ Len(VisitSeq) = 4
  /\ Dist(VisitSeq[2]) = 1
  /\ Dist(VisitSeq[3]) = 1
  /\ Dist(VisitSeq[4]) = 2

\* ---------------------------------------------------------------- C14
\* C14: a run is determined by its configuration and the site: two runs on
\* the same site visit the same URLs in the same order and report the same
\* bugs and errors, also when max_pages cuts the crawl short. In one run:
\* whenever a URL that a page's link discovery added to the queue is visited,
\* every order in which that page's links can be enumerated would have left
\* the same queue, so no other run on the same site visits another URL at
\* that place.
C14_Deterministic ==
  \A j \in Returned("discover") :
    (\E i \in Ops("visit") : i > j /\ InQueue(trace[i].url, trace[j].added))
      => trace[j].forced

\* ---------------------------------------------------------------- C15
\* C15: the run loop starts a page session whenever the queue is non-empty
\* and fewer than max_pages URLs are visited, and it stops only when the queue
\* is empty or max_pages URLs are visited; a URL still queued when the budget
\* is reached is never dequeued and leaves no entry in errors.
C15_LoopGuard ==
  /\ [][(pc = "loop" /\ queue # <<>> /\ Cardinality(visited) < max_pages)
          => /\ pc' = "goto"
             /\ url' = Head(queue)
             /\ trace' = Append(trace, [op |-> "visit", url |-> Head(queue)])]_vars
  /\ [](pc = "done" =>
          /\ queue = <<>> \/ Cardinality(visited) = max_pages
          /\ \A u \in QueueSet :
               /\ \A i \in Idx : trace[i].op # "attach" /\ trace[i].op # "close"
                                   => trace[i].url # u
               /\ \A k \in 1..Len(errors) : errors[k].url # u)

\* the budget was reached with two URLs still queued, in a run that has
\* recorded an error
C15_Witness ==
  /\ pc = "done"
  /\ Len(queue) = 2
  /\ Cardinality(visited) = max_pages
  /\ errors # <<>>

\* ---------------------------------------------------------------- C16
\* the reporter, src/reporter.py

\* the values of the enum Severity
Severities == {"critical", "high", "medium", "low", "info"}

\* categories of the bugs handed to the reporter
ReportCategories == {"javascript", "seo"}

\* a Bug of severity s and category c, the k-th of a result
SampleBug(s, c, k) ==
  [url |-> <<"http:", "/", "/", "a.com">>, category |-> c, severity |-> s,
   title |-> <<c, k>>, description |-> <<c, k>>]

\* the lists of at most MaxReportBugs bugs a result may hold
SampleResults ==
  UNION { { [k \in 1..n |-> SampleBug(pick[k][1], pick[k][2], k)] :
              pick \in [1..n -> Severities \X ReportCategories] } :
          n \in 0..MaxReportBugs }

\* dataclasses.asdict(bug): every field of the dataclass, the optional ones
\* at their defaults
asdict(bug) ==
  [url |-> bug.url, category |-> bug.category, severity |-> bug.severity,
   title |-> bug.title, description |-> bug.description,
   selector |-> "None", screenshot_path |-> "None", extra |-> <<>>]

\* variant: d[k] = 1
bump_reset(d, k) ==
  [x \in DOMAIN d \cup {k} |-> IF x = k THEN 1 ELSE d[x]]

\* d[k] = d.get(k, 0) + 1
bump(d, k) ==
  [x \in DOMAIN d \cup {k} |->
     IF x = k THEN (IF k \in DOMAIN d THEN d[k] ELSE 0) + 1 ELSE d[x]]

RECURSIVE tally(_, _, _)
\* the dict built by the loop of generate_json_report over the first n bugs,
\* counting by the field f ("severity" or "category")
tally(bs, n, f) ==
  IF n = 0 THEN <<>>
  ELSE bump(tally(bs, n - 1, f),
            IF f = "severity" THEN bs[n].severity ELSE bs[n].category)

\* generate_json_report(result, output_path): the dict written and returned
generate_json_report(r_start_url, r_pages, r_finished_at, r_bugs, r_errors) ==
  [built |-> TRUE,
   tool |-> "Vibe Crawler",
   start_url |-> r_start_url,
   pages_visited |-> r_pages,
   finished_at |-> r_finished_at,
   summary |-> [total_bugs |-> Len(r_bugs),
                by_severity |-> tally(r_bugs, Len(r_bugs), "severity"),
                by_category |-> tally(r_bugs, Len(r_bugs), "category")],
   bugs |-> [k \in 1..Len(r_bugs) |-> asdict(r_bugs[k])],
   errors |-> r_errors]

\* a finished run of one page whose result holds any of the sample lists
InitReport ==
  /\ start_url = <<"http:", "/", "/", "a.com", "/">>
  /\ max_pages = 1
  /\ limits = [faults |-> 0, bugs |-> MaxReportBugs, events |-> 0,
               links |-> 0]
  /\ visited = {rstrip(start_url)}
  /\ queue = <<>>
  /\ bugs \in SampleResults
  /\ errors = <<>>
  /\ pages_visited = 1
  /\ finished_at = TRUE
  /\ browser = "closed"
  /\ pc = "done"
  /\ url = rstrip(start_url)
  /\ resp = Response(200)
  /\ di = Len(detector_classes) + 1
  /\ trace = <<>>
  /\ buffered = <<>>
  /\ info = NoInfo
  /\ seo_out = <<>>
  /\ report = NoReport

\* main, crawler.py line 208: generate_json_report(result, args.output)
Report ==
  /\ pc = "done"
  /\ report' = generate_json_report(start_url, pages_visited, finished_at,
                                    bugs, errors)
  /\ pc' = "reported"
  /\ UNCHANGED <<start_url, max_pages, visited, queue, bugs, errors,
                 pages_visited, finished_at, browser, url, resp, di, trace,
                 limits, buffered, info, seo_out>>

SpecReport == InitReport /\ [][Report]_vars

RECURSIVE SumOver(_, _)
\* the sum of the counts of a dict over the keys in K
SumOver(d, K) ==
  IF K = {} THEN 0
  ELSE LET k == CHOOSE x \in K : TRUE IN d[k] + SumOver(d, K \ {k})

\* C16: the report generate_json_report builds from a result with N bugs has
\* summary.total_bugs = N, by_severity counts that sum to N, and a bugs array
\* of N entries that are the result's bugs in the same order.
C16_ReportCounts ==
  report.built =>
    /\ report.summary.total_bugs = Len(bugs)
    /\ SumOver(report.summary.by_severity,
               DOMAIN report.summary.by_severity) = Len(bugs)
    /\ DOMAIN report.summary.by_severity \subseteq Severities
    /\ Len(report.bugs) = Len(bugs)
    /\ \A k \in 1..Len(bugs) :
         /\ report.bugs[k].url = bugs[k].url
         /\ report.bugs[k].category = bugs[k].category
         /\ report.bugs[k].severity = bugs[k].severity
         /\ report.bugs[k].title = bugs[k].title
         /\ report.bugs[k].description = bugs[k].description

\* a report was built from three bugs, two of them of one severity
C16_Witness ==
  /\ report.built
  /\ Len(bugs) = 3
  /\ bugs[1].severity = bugs[3].severity
  /\ bugs[1].severity # bugs[2].severity
  /\ report.summary.by_severity[bugs[1].severity] = 2

\* ---------------------------------------------------------------- C17
\* MetaAndSEODetector, src/meta_seo.py

\* what page.evaluate returns for a page: title, metaDescription and viewport
\* are "" or a text, h1Count is the number of h1 elements, favicon a boolean
PageFacts ==
  [loaded : {TRUE}, title : {"", "text"}, metaDescription : {"", "text"},
   viewport : {"", "text"}, h1Count : 0..MaxH1, favicon : BOOLEAN]

\* Bug(url=url, category="seo", severity=..., title=..., description=...)
SeoBug(u, sev, title, description) ==
  [url |-> u, category |-> "seo", severity |-> sev, title |-> title,
   description |-> description]

\* the list holding b if the condition holds, else the empty list
When(cond, b) == IF cond THEN <<b>> ELSE <<>>

\* variant: the title is tested against None
meta_seo_detect_title_none(inf, u) ==
  When(inf.viewport = "",
       SeoBug(u, "medium", <<"Missing viewport meta tag">>,
              <<"No <meta name='viewport'> found - ",
                   "this page is likely broken on mobile devices.">>))

\* MetaAndSEODetector.detect, lines 29-87: the bugs for the facts inf
meta_seo_detect(inf, u) ==
  When(inf.title = "",
       SeoBug(u, "medium", <<"Missing page <title>">>,
              <<"The page has no <title> tag.">>))
  \o When(inf.viewport = "",
          SeoBug(u, "medium", <<"Missing viewport meta tag">>,
                 <<"No <meta name='viewport'> found - ",
                   "this page is likely broken on mobile devices.">>))
  \o When(inf.metaDescription = "",
          SeoBug(u, "low", <<"Missing meta description">>,
                 <<"No <meta name='description'> tag found.">>))
  \o When(~inf.favicon,
          SeoBug(u, "low", <<"Missing favicon">>,
                 <<"No <link rel='icon'> found.">>))
  \o (IF inf.h1Count = 0
      THEN <<SeoBug(u, "low", <<"No <h1> heading found">>,
                    <<"Page has no <h1> element.">>)>>
      ELSE IF inf.h1Count > 1
      THEN <<SeoBug(u, "low", <<"Multiple <h1> tags (", inf.h1Count, ")">>,
                    <<"Best practice is a single <h1> per page.">>)>>
      ELSE <<>>)

\* the seed page is loaded and its page session is at the detector loop, the
\* page holding any of the facts
InitSeo ==
  /\ start_url = <<"http:", "/", "/", "a.com", "/">>
  /\ max_pages = 1
  /\ limits = [faults |-> 0, bugs |-> 0, events |-> 0, links |-> 0]
  /\ visited = {rstrip(start_url)}
  /\ queue = <<>>
  /\ bugs = <<>>
  /\ errors = <<>>
  /\ pages_visited = 0
  /\ finished_at = FALSE
  /\ browser = "open"
  /\ pc = "detect"
  /\ url = rstrip(start_url)
  /\ resp = Response(200)
  /\ di = 1
  /\ trace = <<>>
  /\ buffered = <<>>
  /\ info \in PageFacts
  /\ seo_out = <<>>
  /\ report = NoReport

\* one call of MetaAndSEODetector.detect on the page, whose content the call
\* only reads
SeoDetect ==
  /\ pc = "detect"
  /\ info.loaded
  /\ Len(seo_out) < MaxSeoCalls
  /\ seo_out' = Append(seo_out, meta_seo_detect(info, url))
  /\ UNCHANGED <<start_url, max_pages, visited, queue, bugs, errors,
                 pages_visited, finished_at, browser, pc, url, resp, di, trace,
                 limits, buffered, info, report>>

SpecSeo == InitSeo /\ [][SeoDetect]_vars

\* the only defect of the page is its empty title
OnlyTitleMissing ==
  /\ info.loaded
  /\ info.title = ""
  /\ info.viewport # ""
  /\ info.metaDescription # ""
  /\ info.favicon
  /\ info.h1Count = 1

EventKinds == {"console.error", "console.warning", "pageerror"}

\* the text of a message emitted while the page at u is shown
EventText(u) == <<"at ">> \o u

\* s[:n]
take(s, n) == SubSeq(s, 1, IF Len(s) < n THEN Len(s) ELSE n)

\* ConsoleErrorDetector._on_console
on_console(buf, msg) ==
  IF msg.type = "error"
  THEN Append(buf, [type |-> "console.error", text |-> msg.text])
  ELSE buf

\* ConsoleErrorDetector._on_pageerror
on_pageerror(buf, error) ==
  Append(buf, [type |-> "unhandled_exception", text |-> error])

\* ConsoleErrorDetector.detect, lines 28-40: one Bug per buffered entry
console_detect(buf, u) ==
  [k \in 1..Len(buf) |->
     [url |-> u, category |-> "javascript",
      severity |-> IF buf[k].type = "unhandled_exception" THEN "high"
                   ELSE "medium",
      title |-> <<"JS ", buf[k].type>>,
      description |-> take(buf[k].text, DescriptionLimit)]]

\* variant: the buffer is kept
console_clear_kept(buf) == buf

\* ConsoleErrorDetector.detect, line 41: self._errors.clear()
console_clear(buf) == <<>>

\* the number of events the page has emitted so far
Events == Cardinality(Ops("console"))

\* the page emits an event while the run awaits a call on it; the handlers
\* registered by attach run
ConsoleEvent ==
  /\ pc \in {"goto", "settle", "detect", "discover"}
  /\ Events < limits.events
  /\ \E kind \in EventKinds :
       /\ buffered' =
            IF kind = "pageerror"
            THEN on_pageerror(buffered, EventText(url))
            ELSE on_console(buffered,
                            [type |-> IF kind = "console.error" THEN "error"
                                      ELSE "warning",
                             text |-> EventText(url)])
       /\ trace' = Log([op |-> "console", url |-> url, kind |-> kind])
  /\ UNCHANGED <<start_url, max_pages, visited, queue, bugs, errors,
                 pages_visited, finished_at, browser, pc, url, resp, di,
                 limits, info, seo_out, report>>

\* _crawl_page, lines 127-132, with the detect of ConsoleErrorDetector
\* spelled out
DetectBuffered ==
  /\ pc = "detect"
  /\ IF detector_classes[di] = "console_errors"
     THEN /\ bugs' = extend(bugs, console_detect(buffered, url))
          /\ buffered' = console_clear(buffered)
          /\ pc' = after_detect(di, detector_classes)
          /\ di' = di + 1
          /\ trace' = Log([op |-> "detect", url |-> url,
                           det |-> detector_classes[di], raised |-> "",
                           ret |-> console_detect(buffered, url)])
          /\ UNCHANGED <<start_url, max_pages, visited, queue, errors,
                         pages_visited, finished_at, browser, url, resp,
                         limits, info, seo_out, report>>
     ELSE Detect

\* a site whose pages emit console events, crawled with the console detector
\* registered
InitConsole ==
  /\ start_url = <<"http:", "/", "/", "a.com", "/">>
  /\ max_pages \in 1..MaxBudget
  /\ limits = [faults |-> 1, bugs |-> 1, events |-> MaxEvents, links |-> 1]
  /\ Constructed

NextConsole ==
  \/ Launch
  \/ Pop
  \/ Finish
  \/ Goto
  \/ Settle
  \/ StatusCheck
  \/ DetectBuffered
  \/ Discover
  \/ ConsoleEvent

SpecConsole == InitConsole /\ [][NextConsole]_vars

\* the bugs of category javascript, in the order of the result
JsBugs == SelectSeq(bugs, LAMBDA b : b.category = "javascript")

\* the events the handlers buffered, in the order they were emitted
Captured ==
  SelectSeq(trace, LAMBDA ev : ev.op = "console" /\ ev.kind # "console.warning")

\* C18: console and uncaught-error events are drained once per page visit and
\* reported under the page on which they occurred: every javascript Bug
\* carries the URL of the page visit during which its event fired, so an event
\* buffered during a failed navigation, or fired after the page's detect call
\* returned, is never reported under a later page's URL.
C18_ReportedOnOwnPage ==
  /\ Len(JsBugs) <= Len(Captured)
  /\ \A k \in 1..Len(JsBugs) : JsBugs[k].url = Captured[k].url

\* ---------------------------------------------------------------- C19
\* the detect calls of ConsoleErrorDetector, by their place in the trace
ConsoleDetects ==
  { i \in Ops("detect") : trace[i].det = "console_errors" }

\* the events the handlers buffered between the detect call before the i-th
\* call of the trace and that call
BufferedBefore(i) ==
  LET before == { j \in ConsoleDetects : j < i }
      prev == IF before = {} THEN 0
              ELSE CHOOSE j \in before : \A m \in before : m <= j
  IN SelectSeq(SubSeq(trace, prev + 1, i - 1),
               LAMBDA ev : ev.op = "console" /\ ev.kind # "console.warning")

\* C19: right after every ConsoleErrorDetector.detect call returns the buffer
\* is empty, and the call returned exactly one Bug for each event that was in
\* the buffer when it started, of severity high for an unhandled exception and
\* medium for a console error, in the order of capture.
C19_DetectDrainsBuffer ==
  /\ \A i \in ConsoleDetects :
       LET evs == BufferedBefore(i)
           ret == trace[i].ret
       IN /\ trace[i].raised = ""
          /\ Len(ret) = Len(evs)
          /\ \A k \in 1..Len(ret) :
               /\ ret[k].category = "javascript"
               /\ ret[k].url = trace[i].url
               /\ ret[k].severity = (IF evs[k].kind = "pageerror" THEN "high"
                                     ELSE "medium")
               /\ ret[k].description = EventText(evs[k].url)
  /\ (trace # <<>> /\ Len(trace) \in ConsoleDetects) => buffered = <<>>

\* a detect call has just returned a high Bug for an uncaught exception and
\* then a medium Bug for a console error, and an earlier detect call had
\* returned no Bug
C19_Witness ==
  /\ Len(trace) \in ConsoleDetects
  /\ Cardinality(ConsoleDetects) = 2
  /\ Len(trace[Len(trace)].ret) = 2
  /\ trace[Len(trace)].ret[1].severity = "high"
  /\ trace[Len(trace)].ret[2].severity = "medium"
  /\ buffered = <<>>

\* ---------------------------------------------------------------- C20
\* every detector has been invoked for the page session of u
AllInvoked(u) ==
  \A name \in DetectorNames :
    \E i \in Ops("detect") : trace[i].url = u /\ trace[i].det = name

\* the page session of u is over
SessionOver(u) ==
  \E i \in Ops("visit") :
    /\ trace[i].url = u
    /\ pc \in {"loop", "done"} \/ url # u

has_fragment(u) == \E i \in 1..Len(u) : u[i] = "#"

\* the URL ends with "/"
has_trailing_slash(u) == u # <<>> /\ u[Len(u)] = "/"

\* C21: every URL in the visited set or in the queue, the seed included, is
\* normalized: it holds no fragment and ends with no slash, for every seed and
\* every discovered href.
C21_StoredNormalized ==
  \A u \in visited \cup QueueSet :
    ~has_fragment(u) /\ ~has_trailing_slash(u)

\* ---------------------------------------------------------------- C22
\* the attach calls made on the instance of the detector class name
AttachesOf(name) == { i \in Ops("attach") : trace[i].det = name }

\* C22: one instance of each configured detector class is created per run and
\* used for every page; attach is called exactly once on each instance, and
\* every attach call comes before the first navigation of the run.
C22_AttachOnceBeforeNavigation ==
  /\ pc # "start" =>
       \A name \in DetectorNames : Cardinality(AttachesOf(name)) = 1
  /\ \A i \in Ops("attach") :
       /\ trace[i].det \in DetectorNames
       /\ \A j \in Ops("visit") \cup Ops("goto") : i < j
  /\ \A j \in Ops("detect") :
       \E i \in AttachesOf(trace[j].det) : i < j

\* two pages were inspected by both detectors in a run with two attach calls
C22_Witness ==
  /\ pc = "done"
  /\ Cardinality(Ops("attach")) = 2
  /\ Cardinality(Ops("detect")) = 4
  /\ Cardinality(Ops("goto")) = 2

\* ---------------------------------------------------------------- C23
\* the detect calls made for the page session of u, by their place in the
\* trace
DetectsOf(u) == { i \in Ops("detect") : trace[i].url = u }

\* the names of the detectors invoked for u, in the order of the calls
DetectSeq(u) ==
  LET d == SelectSeq(trace, LAMBDA ev : ev.op = "detect" /\ ev.url = u)
  IN [k \in 1..Len(d) |-> d[k].det]

\* C23: for every page whose navigation and settle wait succeeded, detect is
\* invoked exactly once on each registered detector, in registration order,
\* after the settle wait and before the link discovery, whatever the HTTP
\* status and whether or not an earlier detector failed; for a page whose
\* navigation failed no detect is invoked.
C23_DetectOncePerPage ==
  /\ \A s \in Returned("settle") :
       LET u == trace[s].url
       IN /\ Len(DetectSeq(u)) <= Len(detector_classes)
          /\ DetectSeq(u) = SubSeq(detector_classes, 1, Len(DetectSeq(u)))
          /\ \A i \in DetectsOf(u) : s < i
          /\ \A j \in Ops("discover") :
               trace[j].url = u =>
                 /\ DetectSeq(u) = detector_classes
                 /\ \A i \in DetectsOf(u) : i < j
          /\ SessionOver(u) => \E j \in Ops("discover") : trace[j].url = u
  /\ \A g \in Raised("goto") : DetectsOf(trace[g].url) = {}

\* a page answered with status 400, its first detector failed, its second
\* detector returned a Bug and its links were discovered; the navigation of
\* the next page failed
C23_Witness ==
  /\ pc = "done"
  /\ Len(HttpBugs) = 1
  /\ \E i \in Raised("detect") :
       /\ trace[i].det = detector_classes[1]
       /\ \E j \in Returned("detect") :
            /\ trace[j].url = trace[i].url
            /\ trace[j].ret # <<>>
       /\ \E j \in Returned("discover") : trace[j].url = trace[i].url
  /\ Raised("goto") # {}

\* ---------------------------------------------------------------- C24
\* the place of the page session of u among the page sessions of the run
VisitPos(u) == CHOOSE k \in 1..Len(VisitSeq) : VisitSeq[k] = u

\* the place of a Bug within its page: 0 for the synthetic http Bug, k for a
\* Bug of the k-th registered detector
Slot(b) ==
  IF b.category = "http" THEN 0
  ELSE CHOOSE k \in 1..Len(detector_classes) :
         DetCategory[detector_classes[k]] = b.category

\* bs is bs2 cut at some length
IsPrefix(bs, bs2) == Len(bs) <= Len(bs2) /\ bs = SubSeq(bs2, 1, Len(bs))

\* the bugs are ordered by page, then by slot, and hold what each detect call
\* returned, in the order it returned it
BugsOrdered ==
  /\ \A i, j \in 1..Len(bugs) :
       i < j =>
         \/ VisitPos(bugs[i].url) < VisitPos(bugs[j].url)
         \/ /\ bugs[i].url = bugs[j].url
            /\ Slot(bugs[i]) <= Slot(bugs[j])
  /\ \A i \in 1..Len(bugs) :
       \E k \in 1..Len(VisitSeq) : VisitSeq[k] = bugs[i].url
  /\ \A d \in Returned("detect") :
       BugsFrom(trace[d].det, trace[d].url) = trace[d].ret

\* C24: the bugs sequence is append-only and ordered by discovery: the bugs
\* of an earlier visited page precede the bugs of a later visited page; within
\* a page the synthetic http Bug, if any, comes first, then the bugs of each
\* detector in registration order, each detector's bugs in the order it
\* returned them.
C24_BugsInDiscoveryOrder ==
  /\ []BugsOrdered
  /\ [][IsPrefix(bugs, bugs')]_vars

\* the result holds a detector's Bug of the seed page followed by the http
\* Bug of the next page
C24_Witness ==
  /\ Len(bugs) = 2
  /\ bugs[1].url = Seed
  /\ bugs[1].category # "http"
  /\ bugs[2].url # Seed
  /\ bugs[2].category = "http"

\* ---------------------------------------------------------------- C25
\* no element occurs twice in the sequence
NoDuplicate(q) == \A i, j \in 1..Len(q) : q[i] = q[j] => i = j

\* C25: offering a discovered URL that is already visited or already queued
\* changes nothing and raises no error: no URL ever enters the queue twice,
\* the queue never holds a URL twice, and errors holds only entries of failed
\* navigations and failed detectors.
C25_OfferDropsDuplicates ==
  /\ NoDuplicate(queue)
  /\ pc # "start" =>
       /\ NoDuplicate(Entered)
       /\ visited \cup QueueSet = { Entered[k] : k \in 1..Len(Entered) }
  /\ \A k \in 1..Len(errors) : errors[k].msg \in {"Failed to load ", "Detector "}
  /\ pc # "raised"

\* a page carried a link to a URL that was in the queue, and a link to the
\* visited seed
C25_Witness ==
  /\ pc = "loop"
  /\ queue # <<>>
  /\ trace[Len(trace)].op = "discover"
  /\ trace[Len(trace)].added = <<>>
  /\ Head(queue) \in trace[Len(trace)].found
  /\ Seed \in trace[Len(trace)].found

\* ---------------------------------------------------------------- C26
\* the step in which the link discovery of the current page raises
DiscoverFails ==
  /\ pc = "discover"
  /\ trace' # trace
  /\ trace'[Len(trace')].op = "discover"
  /\ trace'[Len(trace')].raised # ""

\* C26: when the link discovery of a page fails the failure is swallowed: the
\* step leaves the queue, the visited set, bugs and errors unchanged, the bugs
\* collected for the page are kept, and the run loop goes on with the next
\* queued URL.
C26_DiscoveryFailureSwallowed ==
  [][DiscoverFails =>
       /\ queue' = queue
       /\ visited' = visited
       /\ bugs' = bugs
       /\ errors' = errors
       /\ pc' = "loop"]_vars

\* the link discovery of a page that had shown a Bug has just failed, with a
\* URL left in the queue
C26_Witness ==
  /\ pc = "loop"
  /\ trace[Len(trace)].op = "discover"
  /\ trace[Len(trace)].raised # ""
  /\ BugsFrom(detector_classes[1], url) # <<>>
  /\ queue # <<>>

\* ---------------------------------------------------------------- C27
\* the run loop is about to pop the head of the queue
AboutToPop ==
  pc = "loop" /\ queue # <<>> /\ Cardinality(visited) < max_pages

\* C27: the defensive skip of the run loop is never taken: every URL the loop
\* pops from the queue is not in the visited set at the moment it is popped,
\* and the pop starts its page session.
C27_SkipNeverTaken ==
  /\ [](AboutToPop => Head(queue) \notin visited)
  /\ [][AboutToPop => (queue' = Tail(queue) /\ pc' = "goto"
                       /\ url' = Head(queue))]_vars

\* the loop is about to pop a URL after a page that linked back to the
\* visited seed
C27_Witness ==
  /\ AboutToPop
  /\ visited # {}
  /\ trace[Len(trace)].op = "discover"
  /\ Seed \in trace[Len(trace)].found
  /\ trace[Len(trace)].added # <<>>

\* ---------------------------------------------------------------- C28
\* the navigations attempted for u, by their place in the trace
GotosOf(u) == { g \in Ops("goto") : trace[g].url = u }

\* C28: a URL is added to the visited set before its navigation is attempted,
\* so a page whose navigation fails still counts toward pages_visited and the
\* max_pages budget, is never queued again or retried, and the final
\* pages_visited is the number of page sessions started, failed ones
\* included.
C28_VisitedBeforeNavigation ==
  /\ pc = "goto" => url \in visited
  /\ \A g \in Ops("goto") :
       /\ trace[g].url \in visited
       /\ \E v \in Ops("visit") : v < g /\ trace[v].url = trace[g].url
  /\ \A g \in Raised("goto") :
       /\ trace[g].url \notin QueueSet
       /\ GotosOf(trace[g].url) = {g}
  /\ Cardinality(Ops("visit")) = Cardinality(visited)
  /\ Cardinality(visited) <= max_pages
  /\ pc = "done" =>
       /\ pages_visited = Cardinality(Ops("visit"))
       /\ pages_visited = Cardinality(Ops("goto"))

\* the run ended on its budget of two pages, the second of which failed to
\* load, with a URL left in the queue
C28_Witness ==
  /\ pc = "done"
  /\ max_pages = 2
  /\ pages_visited = 2
  /\ Cardinality(Raised("goto")) = 1
  /\ queue # <<>>

\* ---------------------------------------------------------------- C29
RECURSIVE ReturnedUpTo(_)
\* the bugs returned by the detect calls among the first n calls of the
\* trace, in the order of the calls
ReturnedUpTo(n) ==
  IF n = 0 THEN <<>>
  ELSE ReturnedUpTo(n - 1) \o
       (IF trace[n].op = "detect" /\ trace[n].raised = "" THEN trace[n].ret
        ELSE <<>>)

\* the bugs that are not the synthetic http Bug of a page
DetectorBugs == SelectSeq(bugs, LAMBDA b : b.category # "http")

\* the errors entries of failed detect calls
DetectorErrors == { k \in 1..Len(errors) : errors[k].msg = "Detector " }

\* C29: each detect call is all-or-nothing and nothing is merged: a call that
\* raises appends one error and no Bug, a call that returns appends exactly
\* the bugs it returned and no error, so that the length of bugs is the number
\* of synthetic http bugs plus the number of bugs returned by the detect calls
\* that returned, duplicates kept.
C29_DetectAllOrNothing ==
  /\ DetectorBugs = ReturnedUpTo(Len(trace))
  /\ Len(bugs) = Len(HttpBugs) + Len(ReturnedUpTo(Len(trace)))
  /\ Cardinality(DetectorErrors) = Cardinality(Raised("detect"))
  /\ \A i \in Raised("detect") :
       /\ trace[i].ret = <<>>
       /\ Cardinality(DetectorErrorsOf(trace[i].det, trace[i].url)) = 1
  /\ \A i \in Returned("detect") :
       DetectorErrorsOf(trace[i].det, trace[i].url) = {}

\* the result holds the same javascript Bug twice, from two equal console
\* errors of one page, and the http Bug of that page; a detect call has failed
C29_Witness ==
  /\ Len(bugs) = 3
  /\ bugs[1].category = "http"
  /\ bugs[2] = bugs[3]
  /\ Raised("detect") # {}

====
